---------------------------- MODULE Spec2Model ----------------------------
(***************************************************************************)
(* The Cantonese Diceware generators cdice.py and cantonese-diceware.py.   *)
(*                                                                         *)
(* A text (a Python str holding newline-separated syllables) is a sequence *)
(* of lines, each line a string; a line emptied by a removal stays in the  *)
(* text as "" (re.sub removes the match, never the newline after it).      *)
(* No pattern of either program matches across a newline: "." and the      *)
(* literal characters never match one, and the one negated class,          *)
(* [^?|]+ of the nasal filter, is applied to the fresh product only, where *)
(* every line holds a "|" before its end.                                  *)
(***************************************************************************)
EXTENDS Integers, Sequences, FiniteSets, TLC

(***************************************************************************)
(* Bounds of the model: how many trailing initials an inventory edit may   *)
(* drop, and how many trailing tokens a table edit may drop.               *)
(***************************************************************************)
MaxDropped == 1

MaxTrimmed == 1

\* The two programs of the repository.
CDICE == "cdice.py"

CANTONESE_DICEWARE == "cantonese-diceware.py"

PROGRAMS == {CDICE, CANTONESE_DICEWARE}

(***************************************************************************)
(* Characters, with their code points (the order sorted() compares by).    *)
(***************************************************************************)
CodePoint ==
  " " :> 32 @@ "'" :> 39 @@ "1" :> 49 @@ "2" :> 50 @@ "3" :> 51 @@
  "4" :> 52 @@ "5" :> 53 @@ "6" :> 54 @@ "7" :> 55 @@ "8" :> 56 @@
  "9" :> 57 @@ "?" :> 63 @@ "_" :> 95 @@ "a" :> 97 @@ "b" :> 98 @@
  "c" :> 99 @@ "d" :> 100 @@ "e" :> 101 @@ "f" :> 102 @@ "g" :> 103 @@
  "h" :> 104 @@ "i" :> 105 @@ "j" :> 106 @@ "k" :> 107 @@ "l" :> 108 @@
  "m" :> 109 @@ "n" :> 110 @@ "o" :> 111 @@ "p" :> 112 @@ "r" :> 114 @@
  "s" :> 115 @@ "t" :> 116 @@ "u" :> 117 @@ "w" :> 119 @@ "y" :> 121 @@
  "z" :> 122 @@ "|" :> 124

\* Every character but the newline: what "." matches.
AnyChar == DOMAIN CodePoint

Min(a, b) == IF a < b THEN a ELSE b

Char(s, i) == SubSeq(s, i, i)

(***************************************************************************)
(* The inventories and the conversion tables, as .split() reads them.      *)
(***************************************************************************)
INITIALS ==
  << "?", "p", "p'", "m", "f", "t", "t'", "n",
     "l", "k", "k'", "ng", "h", "kw", "k'w", "w",
     "ts", "ts'", "ch", "ch'", "s", "sh", "y", "r" >>

FINALS ==
  << "aa", "aai", "aau", "aam", "aan", "aang", "aap", "aat", "aak",
     "ai", "au", "am", "an", "ang", "ap", "at", "ak", "e",
     "ei", "eu", "em", "en", "eng", "ep", "et", "ek", "ee",
     "eeu", "eem", "een", "ing", "eep", "eet", "ik", "or", "oi",
     "ou", "orn", "ong", "ort", "ok", "oo", "ooi", "oon", "ung",
     "oot", "uk", "oe", "oen", "oeng", "oet", "oek", "_ue", "_n",
     "_t", "ue", "uen", "uet", "m", "ng" >>

ROMANISATION_CONVERSIONS_DICTIONARY ==
  [ jyutping |->
      [ initials |->
          << "p", "b",
             "p'", "p",
             "t", "d",
             "t'", "t",
             "k", "g",
             "k'", "k",
             "kw", "gw",
             "k'w", "kw",
             "ts", "z",
             "ts'", "c",
             "ch", "zh",
             "ch'", "ch",
             "y", "j" >>,
        finals |->
          << "ee", "i",
             "eeu", "iu",
             "eem", "im",
             "een", "in",
             "eep", "ip",
             "eet", "it",
             "or", "o",
             "orn", "on",
             "ort", "ot",
             "oo", "u",
             "ooi", "ui",
             "oon", "un",
             "oot", "ut",
             "_ue", "eoi",
             "_n", "eon",
             "_t", "eot",
             "ue", "yu",
             "uen", "yun",
             "uet", "yut" >>,
        tones |->
          << "7", "1", "8", "3", "9", "6" >> ],
    sidney_lau |->
      [ initials |->
          << "p", "b",
             "p'", "p",
             "t", "d",
             "t'", "t",
             "k", "g",
             "k'", "k",
             "kw", "gw",
             "k'w", "kw",
             "ch", "jh",
             "ch'", "chh",
             "ts", "j",
             "ts'", "ch" >>,
        finals |->
          << "aa", "a",
             "ee", "i",
             "eeu", "iu",
             "eem", "im",
             "een", "in",
             "eep", "ip",
             "eet", "it",
             "or", "oh",
             "ou", "o",
             "orn", "on",
             "ort", "ot",
             "oe", "euh",
             "oen", "eun",
             "oeng", "eung",
             "oet", "eut",
             "oek", "euk",
             "_ue", "ui",
             "_n", "un",
             "_t", "ut" >>,
        tones |->
          << "7", "1", "8", "3", "9", "6" >> ] ]

PITCHES == << "1", "2", "3", "4", "5", "6" >>

ROMANISATIONS(prog) ==
  IF prog = CDICE THEN << "conway", "jyutping", "sidney_lau" >>
                  ELSE << "conway", "jyutping" >>

NON_CONWAY_ROMANISATIONS(prog) == Tail(ROMANISATIONS(prog))

\* The part types of a conversion dictionary, in insertion order.
TYPES == << "initials", "finals", "tones" >>

\* DiceRoll with the third die read where the second is.
DiceRollRepeated(k) ==
  PITCHES[(((k - 1) \div 1296) % 6) + 1] \o PITCHES[(((k - 1) \div 36) % 6) + 1]
    \o PITCHES[(((k - 1) \div 36) % 6) + 1] \o PITCHES[(((k - 1) \div 6) % 6) + 1]
    \o PITCHES[((k - 1) % 6) + 1]

\* itertools.product('123456', repeat=5), joined: the rightmost digit
\* varies fastest.
DiceRoll(k) ==
  PITCHES[(((k - 1) \div 1296) % 6) + 1] \o PITCHES[(((k - 1) \div 216) % 6) + 1]
    \o PITCHES[(((k - 1) \div 36) % 6) + 1] \o PITCHES[(((k - 1) \div 6) % 6) + 1]
    \o PITCHES[((k - 1) % 6) + 1]

DICE_ROLLS == [k \in 1..(6 * 6 * 6 * 6 * 6) |-> DiceRoll(k)]

(***************************************************************************)
(* Regular expressions.  A pattern is                                      *)
(*   [bol, plus, alts, eol, g1]:                                           *)
(*   "^" if bol; then, if plus is not {}, one or more characters of the    *)
(*   class plus (greedy, backtracking); then one of the alternatives alts  *)
(*   (the first that matches), each a sequence of character classes; then  *)
(*   "$" if eol.  g1 is the number of leading classes that form group 1.   *)
(* A replacement is [g1, lit]: group 1 if g1, then the literal.            *)
(***************************************************************************)
Lit(s) == [j \in 1..Len(s) |-> {Char(s, j)}]

Repl(lit) == [g1 |-> FALSE, lit |-> lit]

\* Where alternative alt, tried at position i of line, ends (the position
\* after the match), or 0 when it does not match there.
AltEnd(alt, line, i, eol) ==
  IF /\ i + Len(alt) - 1 <= Len(line)
     /\ \A j \in 1..Len(alt) : Char(line, i + j - 1) \in alt[j]
     /\ eol => i + Len(alt) = Len(line) + 1
  THEN i + Len(alt) ELSE 0

RECURSIVE FirstAltEnd(_, _, _, _, _)
\* Where the first of the alternatives alts[a], alts[a + 1], ... that matches
\* at position i ends, or 0 when none does.
FirstAltEnd(alts, a, line, i, eol) ==
  IF a > Len(alts) THEN 0
  ELSE LET e == AltEnd(alts[a], line, i, eol)
       IN  IF e # 0 THEN e ELSE FirstAltEnd(alts, a + 1, line, i, eol)

\* The length of the longest run of characters of class plus from i on.
Run(plus, line, i) ==
  LET stop == {j \in i..Len(line) : Char(line, j) \notin plus}
  IN  IF stop = {} THEN Len(line) - i + 1
      ELSE (CHOOSE j \in stop : \A h \in stop : j <= h) - i

\* Where the match of patt that starts at position i of line ends, or 0.
MatchEnd(patt, line, i) ==
  IF patt.bol /\ i # 1 THEN 0
  ELSE IF patt.plus = {} THEN FirstAltEnd(patt.alts, 1, line, i, patt.eol)
  ELSE LET ks == {k \in 1..Run(patt.plus, line, i) :
                    FirstAltEnd(patt.alts, 1, line, i + k, patt.eol) # 0}
       IN  IF ks = {} THEN 0
           ELSE FirstAltEnd(patt.alts, 1, line,
                            i + (CHOOSE k \in ks : \A h \in ks : k >= h), patt.eol)

\* The characters a match of patt can start with.
FirstClass(patt) ==
  IF patt.plus # {} THEN patt.plus
  ELSE UNION {patt.alts[a][1] : a \in 1..Len(patt.alts)}

\* Whether patt matches somewhere in line; first is FirstClass(patt).
HasMatch(first, patt, line) ==
  \E i \in 1..(IF patt.bol THEN Min(1, Len(line)) ELSE Len(line)) :
     Char(line, i) \in first /\ MatchEnd(patt, line, i) # 0

RECURSIVE SubLine(_, _, _, _, _)
\* re.sub within one line, from position i on, replacing at most limit
\* matches (a negative limit: all of them), leftmost first, not overlapping.
SubLine(patt, repl, line, i, limit) ==
  IF i > Len(line) THEN ""
  ELSE IF limit = 0 \/ (patt.bol /\ i > 1) THEN SubSeq(line, i, Len(line))
  ELSE LET e == MatchEnd(patt, line, i)
       IN  IF e # 0
           THEN (IF repl.g1 THEN SubSeq(line, i, i + patt.g1 - 1) ELSE "")
                  \o repl.lit \o SubLine(patt, repl, line, e, limit - 1)
           ELSE Char(line, i) \o SubLine(patt, repl, line, i + 1, limit)

RECURSIVE CountLine(_, _, _)
\* The number of matches re.sub finds in one line, from position i on.
CountLine(patt, line, i) ==
  IF i > Len(line) \/ (patt.bol /\ i > 1) THEN 0
  ELSE LET e == MatchEnd(patt, line, i)
       IN  IF e # 0 THEN 1 + CountLine(patt, line, e)
           ELSE CountLine(patt, line, i + 1)

\* regex_replace counting its matches from the end of the text.
regex_replace_from_end(patt, repl, string, count) ==
  LET first == FirstClass(patt)
      IsHit(k) == HasMatch(first, patt, string[k])
      hits == SelectSeq([k \in 1..Len(string) |-> k], IsHit)
      at   == IF count = 0 THEN {hits[j] : j \in 1..Len(hits)}
              ELSE {hits[j] : j \in (Len(hits) - count + 1)..Len(hits)}
  IN  [k \in 1..Len(string) |->
         IF k \in at THEN SubLine(patt, repl, string[k], 1, -1) ELSE string[k]]

\* re.sub(patt, repl, string, count=count, flags=re.MULTILINE): count = 0
\* replaces every match, count > 0 the first count matches of the text,
\* and a negative count none (the loop "while not count or n < count").
regex_replace(patt, repl, string, count) ==
  LET first == FirstClass(patt)
  IN  IF count = 0
      THEN [k \in 1..Len(string) |->
              IF HasMatch(first, patt, string[k])
              THEN SubLine(patt, repl, string[k], 1, -1) ELSE string[k]]
      ELSE IF count < 0 THEN string
      ELSE LET IsHit(k) == HasMatch(first, patt, string[k])
               hits  == SelectSeq([k \in 1..Len(string) |-> k], IsHit)
               head  == SubSeq(hits, 1, Min(count, Len(hits)))
               \* matches still allowed when the j-th hit line is reached
               left[j \in 1..Len(head)] ==
                 IF j = 1 THEN count
                 ELSE left[j - 1] - CountLine(patt, string[head[j - 1]], 1)
               at == {head[j] : j \in 1..Len(head)}
               Pos(k) == CHOOSE j \in 1..Len(head) : head[j] = k
           IN  [k \in 1..Len(string) |->
                  IF k \in at /\ left[Pos(k)] > 0
                  THEN SubLine(patt, repl, string[k], 1, left[Pos(k)])
                  ELSE string[k]]

\* regex_remove without its count.
regex_remove_all(patt, string, count) ==
  regex_replace(patt, Repl(""), string, 0)

regex_remove(patt, string, count) == regex_replace(patt, Repl(""), string, count)

\* str.split(): the whitespace-separated tokens; a line holds no blank, so
\* they are the lines that are not empty.
NonEmpty(line) == line # ""

split(string) == SelectSeq(string, NonEmpty)

(***************************************************************************)
(* The patterns of main().                                                 *)
(***************************************************************************)
\* NASAL_FINAL without the alternative ng.
NASAL_FINAL_M ==
  [bol |-> TRUE, plus |-> AnyChar \ {"?", "|"},
   alts |-> << <<{"|"}>> \o Lit("m") \o <<{"|"}, AnyChar>> >>,
   eol |-> TRUE, g1 |-> 0]

\* "^[^?|]+[|](?:m|ng)[|].$"
NASAL_FINAL ==
  [bol |-> TRUE, plus |-> AnyChar \ {"?", "|"},
   alts |-> << <<{"|"}>> \o Lit("m") \o <<{"|"}, AnyChar>>,
               <<{"|"}>> \o Lit("ng") \o <<{"|"}, AnyChar>> >>,
   eol |-> TRUE, g1 |-> 0]

\* "^.+[ptk][|]5$" and "^.+[ptk][|]4$"
EnteringPitch(digit) ==
  [bol |-> TRUE, plus |-> AnyChar,
   alts |-> << <<{"p", "t", "k"}, {"|"}, {digit}>> >>,
   eol |-> TRUE, g1 |-> 0]

\* The three canonicalisation rules: "([ptk][|])1" -> r"\g<1>7", 3 -> 8
\* and 6 -> 9.
CANONICAL == << <<"1", "7">>, <<"3", "8">>, <<"6", "9">> >>

\* CanonPatt without the class [ptk].
CanonPattAnyFinal(digit) ==
  [bol |-> FALSE, plus |-> {}, alts |-> << <<{"|"}, {digit}>> >>,
   eol |-> FALSE, g1 |-> 1]

CanonPatt(digit) ==
  [bol |-> FALSE, plus |-> {},
   alts |-> << <<{"p", "t", "k"}, {"|"}, {digit}>> >>,
   eol |-> FALSE, g1 |-> 2]

\* CanonRepl writing the high entering pitch whatever the rule.
CanonReplHigh(digit) == [g1 |-> TRUE, lit |-> "7"]

CanonRepl(digit) == [g1 |-> TRUE, lit |-> digit]

\* "[?]" and "[|]"
OneOf(c) ==
  [bol |-> FALSE, plus |-> {}, alts |-> << <<{c}>> >>, eol |-> FALSE, g1 |-> 0]

(***************************************************************************)
(* convert_romanisation: the rules of one table.                           *)
(***************************************************************************)
\* rules[0::2] and rules[1::2]
Patts(rules) == [j \in 1..((Len(rules) + 1) \div 2) |-> rules[2 * j - 1]]

Repls(rules) == [j \in 1..(Len(rules) \div 2) |-> rules[2 * j]]

\* zip(patts, repls) stops at the shorter of the two.
NumRules(rules) == Min(Len(Patts(rules)), Len(Repls(rules)))

\* RulePatt without the "^" of the initials.
RulePattUnanchored(prog, type, p) ==
  IF type = "initials"
  THEN [bol |-> FALSE, plus |-> {}, alts |-> << Lit(p) \o <<{"|"}>> >>,
        eol |-> FALSE, g1 |-> 0]
  ELSE IF type = "finals"
  THEN [bol |-> FALSE, plus |-> {},
        alts |-> << IF prog = CDICE THEN <<{"|"}>> \o Lit(p) \o <<{"|"}>>
                                    ELSE <<{"|"}>> \o Lit(p) >>,
        eol |-> FALSE, g1 |-> 0]
  ELSE [bol |-> FALSE, plus |-> {}, alts |-> << Lit(p) >>,
        eol |-> FALSE, g1 |-> 0]

\* RulePatt with the finals of cantonese-diceware.py anchored on neither
\* side.
RulePattFloating(prog, type, p) ==
  IF type = "initials"
  THEN [bol |-> TRUE, plus |-> {}, alts |-> << Lit(p) \o <<{"|"}>> >>,
        eol |-> FALSE, g1 |-> 0]
  ELSE IF type = "finals"
  THEN [bol |-> FALSE, plus |-> {},
        alts |-> << IF prog = CDICE THEN <<{"|"}>> \o Lit(p) \o <<{"|"}>>
                                    ELSE Lit(p) >>,
        eol |-> FALSE, g1 |-> 0]
  ELSE [bol |-> FALSE, plus |-> {}, alts |-> << Lit(p) >>,
        eol |-> FALSE, g1 |-> 0]

\* The pattern a rule's p becomes: "^" + p + "[|]" for initials;
\* "[|]" + p + "[|]" for finals in cdice.py and "[|]" + p in
\* cantonese-diceware.py; p itself for tones.
RulePatt(prog, type, p) ==
  IF type = "initials"
  THEN [bol |-> TRUE, plus |-> {}, alts |-> << Lit(p) \o <<{"|"}>> >>,
        eol |-> FALSE, g1 |-> 0]
  ELSE IF type = "finals"
  THEN [bol |-> FALSE, plus |-> {},
        alts |-> << IF prog = CDICE THEN <<{"|"}>> \o Lit(p) \o <<{"|"}>>
                                    ELSE <<{"|"}>> \o Lit(p) >>,
        eol |-> FALSE, g1 |-> 0]
  ELSE [bol |-> FALSE, plus |-> {}, alts |-> << Lit(p) >>,
        eol |-> FALSE, g1 |-> 0]

\* The replacement a rule's r becomes.
RuleRepl(prog, type, r) ==
  IF type = "initials" THEN Repl(r \o "|")
  ELSE IF type = "finals"
  THEN Repl(IF prog = CDICE THEN "|" \o r \o "|" ELSE "|" \o r)
  ELSE Repl(r)

\* One turn of the loop "for p, r in zip(patts, repls)".
ApplyRule(prog, type, rules, j, syls) ==
  regex_replace(RulePatt(prog, type, Patts(rules)[j]),
                RuleRepl(prog, type, Repls(rules)[j]), syls, 0)

(***************************************************************************)
(* The Cartesian product, joined with "|": the initial outermost, the      *)
(* pitch innermost.                                                        *)
(***************************************************************************)
Product(ini, fin, pit) ==
  [k \in 1..(Len(ini) * Len(fin) * Len(pit)) |->
     ini[((k - 1) \div (Len(fin) * Len(pit))) + 1] \o "|"
       \o fin[(((k - 1) \div Len(pit)) % Len(fin)) + 1] \o "|"
       \o pit[((k - 1) % Len(pit)) + 1]]

(***************************************************************************)
(* sorted(): ascending by code points.                                     *)
(***************************************************************************)
\* The code points of a string: what two strings are compared by.
Key(s) == <<>> \o [i \in 1..Len(s) |-> CodePoint[Char(s, i)]]

RECURSIVE LessFrom(_, _, _)
\* Whether a is below b, given that they agree before position i.
LessFrom(a, b, i) ==
  IF i > Len(a) THEN i <= Len(b)
  ELSE IF i > Len(b) THEN FALSE
  ELSE IF a[i] = b[i] THEN LessFrom(a, b, i + 1)
  ELSE a[i] < b[i]

RECURSIVE SortKeyed(_)
\* A list of <<key, string>> pairs in ascending order of the keys.
SortKeyed(list) ==
  IF Len(list) <= 1 THEN list
  ELSE LET pivot == list[(Len(list) + 1) \div 2][1]
           Below(s) == LessFrom(s[1], pivot, 1)
           Same(s)  == s[1] = pivot
           Above(s) == LessFrom(pivot, s[1], 1)
       IN  SortKeyed(SelectSeq(list, Below)) \o SelectSeq(list, Same)
             \o SortKeyed(SelectSeq(list, Above))

sorted(list) ==
  LET keyed == SortKeyed([k \in 1..Len(list) |-> <<Key(list[k]), list[k]>>])
  IN  [k \in 1..Len(keyed) |-> keyed[k][2]]

\* ["{} {}".format(d, s) for d, s in zip(DICE_ROLLS, syllables)]
Prefixed(list) ==
  [k \in 1..Min(Len(DICE_ROLLS), Len(list)) |-> DICE_ROLLS[k] \o " " \o list[k]]

(***************************************************************************)
(* The state of one run of one program.                                    *)
(***************************************************************************)
\* A text is one string of lines joined by "\n".  The state holds the lines
\* of a text in pages, each of as many lines as one initial has in the
\* product; the operators on texts read and write the sequence of lines.
PageSize == Len(FINALS) * Len(PITCHES)

Paged(lines) ==
  [b \in 1..((Len(lines) + PageSize - 1) \div PageSize) |->
     SubSeq(lines, ((b - 1) * PageSize) + 1, Min(b * PageSize, Len(lines)))]

Unpaged(text) ==
  IF Len(text) = 0 THEN <<>>
  ELSE [i \in 1..(((Len(text) - 1) * PageSize) + Len(text[Len(text)])) |->
          text[((i - 1) \div PageSize) + 1][((i - 1) % PageSize) + 1]]

VARIABLES
  program,              \* which of the two programs runs
  initials,             \* INITIALS as the run reads it
  conversions,          \* ROMANISATION_CONVERSIONS_DICTIONARY as the run reads it
  pc,                   \* the statement of main() reached
  conway_syllables,     \* main()'s conway_syllables
  syllable_surplus,     \* main()'s syllable_surplus
  syllables_dictionary, \* main()'s syllables_dictionary
  romanisation,         \* index of the scheme of the running for-loop
  type,                 \* index in TYPES of convert_romanisation's outer loop
  rule,                 \* index of the next rule (of the next canonical rule)
  syllables,            \* the local syllables of convert_romanisation / main()
  files                 \* what has been written, by scheme

vars == << program, initials, conversions, pc, conway_syllables,
           syllable_surplus, syllables_dictionary, romanisation, type, rule,
           syllables, files >>

\* An edit of the initials: the last d are dropped.
DropInitials(d) == SubSeq(INITIALS, 1, Len(INITIALS) - d)

\* An edit of the tables: the last t tokens of every initials table are
\* dropped.
TrimTables(t) ==
  [r \in DOMAIN ROMANISATION_CONVERSIONS_DICTIONARY |->
     [ROMANISATION_CONVERSIONS_DICTIONARY[r] EXCEPT
        !.initials = SubSeq(@, 1, Len(@) - t)]]

NoFile == [r \in {} |-> <<>>]

\* The edits a run may start from: none, or one edit of one kind.
EDITS ==
  {<<d, 0>> : d \in 0..MaxDropped} \cup {<<0, t>> : t \in 0..MaxTrimmed}

Init ==
  /\ program \in PROGRAMS
  /\ \E e \in EDITS :
       /\ program = CANTONESE_DICEWARE => e = <<0, 0>>
       /\ initials = DropInitials(e[1])
       /\ conversions = TrimTables(e[2])
  /\ pc = "generate"
  /\ conway_syllables = <<>>
  /\ syllable_surplus = 0
  /\ syllables_dictionary = NoFile
  /\ romanisation = 0
  /\ type = 0
  /\ rule = 0
  /\ syllables = <<>>
  /\ files = NoFile

config == << program, initials, conversions >>

\* lines 250-259
Generate ==
  /\ pc = "generate"
  /\ conway_syllables' = Paged(Product(initials, FINALS, PITCHES))
  /\ pc' = "filter_nasal"
  /\ UNCHANGED << config, syllable_surplus, syllables_dictionary, romanisation,
                  type, rule, syllables, files >>

\* line 267
FilterNasal ==
  /\ pc = "filter_nasal"
  /\ conway_syllables' =
       Paged(regex_remove(NASAL_FINAL, Unpaged(conway_syllables), 0))
  /\ pc' = "filter_tone5"
  /\ UNCHANGED << config, syllable_surplus, syllables_dictionary, romanisation,
                  type, rule, syllables, files >>

\* line 271
FilterTone5 ==
  /\ pc = "filter_tone5"
  /\ conway_syllables' =
       Paged(regex_remove(EnteringPitch("5"), Unpaged(conway_syllables), 0))
  /\ pc' = "reduce"
  /\ UNCHANGED << config, syllable_surplus, syllables_dictionary, romanisation,
                  type, rule, syllables, files >>

\* lines 279-280
Reduce ==
  /\ pc = "reduce"
  /\ LET surplus == Len(split(Unpaged(conway_syllables))) - (6 ^ 5)
     IN  /\ syllable_surplus' = surplus
         /\ conway_syllables' =
              Paged(regex_remove(EnteringPitch("4"), Unpaged(conway_syllables),
                                 surplus))
  /\ pc' = "canonicalise"
  /\ rule' = 1
  /\ UNCHANGED << config, syllables_dictionary, romanisation, type, syllables,
                  files >>

\* lines 287-289, one statement a step
Canonicalise ==
  /\ pc = "canonicalise"
  /\ rule <= Len(CANONICAL)
  /\ conway_syllables' =
       Paged(regex_replace(CanonPatt(CANONICAL[rule][1]),
                           CanonRepl(CANONICAL[rule][2]),
                           Unpaged(conway_syllables), 0))
  /\ rule' = rule + 1
  /\ UNCHANGED << config, pc, syllable_surplus, syllables_dictionary,
                  romanisation, type, syllables, files >>

\* lines 295-296
StoreConway ==
  /\ pc = "canonicalise"
  /\ rule > Len(CANONICAL)
  /\ syllables_dictionary' = ("conway" :> conway_syllables)
  /\ pc' = "convert"
  /\ romanisation' = 1
  /\ rule' = 0
  /\ UNCHANGED << config, conway_syllables, syllable_surplus, type, syllables,
                  files >>

Scheme == NON_CONWAY_ROMANISATIONS(program)[romanisation]

Rules == conversions[Scheme][TYPES[type]]

\* lines 298-301: the call convert_romanisation(romanisation, conway_syllables)
ConvertCall ==
  /\ pc = "convert"
  /\ romanisation <= Len(NON_CONWAY_ROMANISATIONS(program))
  /\ syllables' = conway_syllables
  /\ type' = 1
  /\ rule' = 1
  /\ pc' = "rules"
  /\ UNCHANGED << config, conway_syllables, syllable_surplus,
                  syllables_dictionary, romanisation, files >>

\* lines 218-219: one rule
ConvertRule ==
  /\ pc = "rules"
  /\ type <= Len(TYPES)
  /\ rule <= NumRules(Rules)
  /\ syllables' =
       Paged(ApplyRule(program, TYPES[type], Rules, rule, Unpaged(syllables)))
  /\ rule' = rule + 1
  /\ UNCHANGED << config, pc, conway_syllables, syllable_surplus,
                  syllables_dictionary, romanisation, type, files >>

\* line 198: the next type
ConvertNextType ==
  /\ pc = "rules"
  /\ type <= Len(TYPES)
  /\ rule > NumRules(Rules)
  /\ type' = type + 1
  /\ rule' = 1
  /\ UNCHANGED << config, pc, conway_syllables, syllable_surplus,
                  syllables_dictionary, romanisation, syllables, files >>

\* line 221 and lines 300-302
ConvertReturn ==
  /\ pc = "rules"
  /\ type > Len(TYPES)
  /\ syllables_dictionary' = (Scheme :> syllables) @@ syllables_dictionary
  /\ romanisation' = romanisation + 1
  /\ pc' = "convert"
  /\ type' = 0
  /\ rule' = 0
  /\ syllables' = <<>>
  /\ UNCHANGED << config, conway_syllables, syllable_surplus, files >>

\* line 308: the output loop starts
ConvertEnd ==
  /\ pc = "convert"
  /\ romanisation > Len(NON_CONWAY_ROMANISATIONS(program))
  /\ romanisation' = 1
  /\ pc' = "output"
  /\ UNCHANGED << config, conway_syllables, syllable_surplus,
                  syllables_dictionary, type, rule, syllables, files >>

Out == ROMANISATIONS(program)[romanisation]

\* line 310
OutputBegin ==
  /\ pc = "output"
  /\ romanisation <= Len(ROMANISATIONS(program))
  /\ syllables' = syllables_dictionary[Out]
  /\ pc' = "strip_null"
  /\ UNCHANGED << config, conway_syllables, syllable_surplus,
                  syllables_dictionary, romanisation, type, rule, files >>

\* line 313
StripNull ==
  /\ pc = "strip_null"
  /\ syllables' = Paged(regex_remove(OneOf("?"), Unpaged(syllables), 0))
  /\ pc' = "strip_separator"
  /\ UNCHANGED << config, conway_syllables, syllable_surplus,
                  syllables_dictionary, romanisation, type, rule, files >>

\* line 316
StripSeparator ==
  /\ pc = "strip_separator"
  /\ syllables' = Paged(regex_remove(OneOf("|"), Unpaged(syllables), 0))
  /\ pc' = "sort"
  /\ UNCHANGED << config, conway_syllables, syllable_surplus,
                  syllables_dictionary, romanisation, type, rule, files >>

\* line 319
Sort ==
  /\ pc = "sort"
  /\ syllables' = Paged(sorted(split(Unpaged(syllables))))
  /\ pc' = "prefix"
  /\ UNCHANGED << config, conway_syllables, syllable_surplus,
                  syllables_dictionary, romanisation, type, rule, files >>

\* line 322
Prefix ==
  /\ pc = "prefix"
  /\ syllables' = Paged(Prefixed(Unpaged(syllables)))
  /\ pc' = "write"
  /\ UNCHANGED << config, conway_syllables, syllable_surplus,
                  syllables_dictionary, romanisation, type, rule, files >>

\* lines 325-333: the lines joined with newlines (cdice.py ends the text
\* with one more) and written to the scheme's file
Write ==
  /\ pc = "write"
  /\ files' = (Out :> [lines |-> syllables, final_newline |-> program = CDICE])
                @@ files
  /\ romanisation' = romanisation + 1
  /\ syllables' = <<>>
  /\ pc' = "output"
  /\ UNCHANGED << config, conway_syllables, syllable_surplus,
                  syllables_dictionary, type, rule >>

\* main() returns
Finish ==
  /\ pc = "output"
  /\ romanisation > Len(ROMANISATIONS(program))
  /\ pc' = "done"
  /\ UNCHANGED << config, conway_syllables, syllable_surplus,
                  syllables_dictionary, romanisation, type, rule, syllables,
                  files >>

Next ==
  \/ Generate \/ FilterNasal \/ FilterTone5 \/ Reduce \/ Canonicalise
  \/ StoreConway \/ ConvertCall \/ ConvertRule \/ ConvertNextType
  \/ ConvertReturn \/ ConvertEnd \/ OutputBegin \/ StripNull
  \/ StripSeparator \/ Sort \/ Prefix \/ Write \/ Finish

Spec == Init /\ [][Next]_vars


(***************************************************************************)
(* The programs as functions: what main() computes, the statements above   *)
(* composed.                                                               *)
(***************************************************************************)
RECURSIVE ApplyRules(_, _, _, _, _)
\* lines 218-219: the rules j, j + 1, ... of one table, in order
ApplyRules(prog, ty, rules, j, syls) ==
  IF j > NumRules(rules) THEN syls
  ELSE ApplyRules(prog, ty, rules, j + 1, ApplyRule(prog, ty, rules, j, syls))

RECURSIVE ApplyTypes(_, _, _, _)
\* line 198: the tables of the types t, t + 1, ... of one scheme, in order
ApplyTypes(prog, tables, t, syls) ==
  IF t > Len(TYPES) THEN syls
  ELSE ApplyTypes(prog, tables, t + 1,
                  ApplyRules(prog, TYPES[t], tables[TYPES[t]], 1, syls))

convert_romanisation(prog, dict, scheme, syls) ==
  ApplyTypes(prog, dict[scheme], 1, syls)

RECURSIVE CanonicaliseFrom(_, _)
CanonicaliseFrom(j, syls) ==
  IF j > Len(CANONICAL) THEN syls
  ELSE CanonicaliseFrom(j + 1,
         regex_replace(CanonPatt(CANONICAL[j][1]), CanonRepl(CANONICAL[j][2]),
                       syls, 0))

\* main() up to the canonicalisation: conway_syllables
ConwaySyllables(ini) ==
  LET all      == Product(ini, FINALS, PITCHES)
      filtered == regex_remove(EnteringPitch("5"),
                               regex_remove(NASAL_FINAL, all, 0), 0)
      surplus  == Len(split(filtered)) - (6 ^ 5)
  IN  CanonicaliseFrom(1, regex_remove(EnteringPitch("4"), filtered, surplus))

\* The lines main() writes to the file of one scheme.
OutputLines(prog, ini, dict, scheme) ==
  LET conway == ConwaySyllables(ini)
      text   == IF scheme = "conway" THEN conway
                ELSE convert_romanisation(prog, dict, scheme, conway)
  IN  Prefixed(sorted(split(regex_remove(OneOf("|"),
                                         regex_remove(OneOf("?"), text, 0), 0))))

(***************************************************************************)
(* Reading a line "initial|final|pitch" back, for the properties below.    *)
(***************************************************************************)
Unedited ==
  initials = INITIALS /\ conversions = ROMANISATION_CONVERSIONS_DICTIONARY

Range(s) == {s[k] : k \in 1..Len(s)}

\* The position of the first "|" of a line.
FirstBar(line) ==
  CHOOSE i \in 1..Len(line) :
    Char(line, i) = "|" /\ \A j \in 1..(i - 1) : Char(line, j) # "|"

InitialOf(line) == SubSeq(line, 1, FirstBar(line) - 1)

FinalOf(line) == SubSeq(line, FirstBar(line) + 1, Len(line) - 2)

PitchOf(line) == Char(line, Len(line))

Join(i, f, p) == i \o "|" \o f \o "|" \o p

\* A syllable whose final ends in p, t or k.
IsEntering(line) ==
  line # "" /\ Char(FinalOf(line), Len(FinalOf(line))) \in {"p", "t", "k"}

\* The line the product holds at index k, before any filter.
Original(k) == Product(initials, FINALS, PITCHES)[k]

Survivors(text) == {k \in 1..Len(text) : text[k] # ""}

\* The lines of the texts of the state.
Conway == Unpaged(conway_syllables)

Syllables == Unpaged(syllables)

Stored(r) == Unpaged(syllables_dictionary[r])

Written(r) == Unpaged(files[r].lines)
(***************************************************************************)
(* The properties.                                                         *)
(***************************************************************************)
\* Every string of length 5 over the digits 1..6.
AllCodes == {a \o b \o c \o d \o e : a, b, c, d, e \in Range(PITCHES)}

CodeOf(line) == SubSeq(line, 1, 5)

SyllableOf(line) == SubSeq(line, 7, Len(line))

\* C1: DICE_ROLLS holds the 7776 strings of length 5 over the digits 1..6,
\* each once; with the shipped inventories and tables the lines main()
\* builds for every scheme are exactly 7776, line k opening with the k-th
\* dice code and a blank, so that the codes of a file are every code once;
\* and when main() returns, every scheme of ROMANISATIONS has its file.
C1_DiceCodesCoverAllRolls ==
  /\ pc = "generate" =>
       /\ Len(DICE_ROLLS) = 7776
       /\ Cardinality(AllCodes) = 7776
       /\ Range(DICE_ROLLS) = AllCodes
  /\ (Unedited /\ pc \in {"output", "done"}) =>
       \A r \in DOMAIN files :
         /\ Len(Written(r)) = 7776
         /\ \A k \in 1..7776 :
              /\ CodeOf(Written(r)[k]) = DICE_ROLLS[k]
              /\ Char(Written(r)[k], 6) = " "
  /\ (Unedited /\ pc = "done") => DOMAIN files = Range(ROMANISATIONS(program))

C1_Witness ==
  /\ pc = "done" /\ program = CDICE /\ Unedited
  /\ DOMAIN files = {"conway", "jyutping", "sidney_lau"}
  /\ CodeOf(Written("sidney_lau")[7776]) = "66666"

\* C2: with the shipped inventories and tables, the surviving canonical
\* syllables are pairwise distinct triples and, for every scheme, the
\* rendered syllables (converted, "?" and "|" stripped) are pairwise
\* distinct, so no two dice codes of a file map to the same syllable.
C2_RenderedSyllablesDistinct ==
  Unedited =>
    /\ pc = "convert" =>
         Cardinality(Range(split(Conway))) = Len(split(Conway))
    /\ pc = "sort" =>
         Cardinality(Range(split(Syllables))) = Len(split(Syllables))
    /\ pc \in {"output", "done"} =>
         \A r \in DOMAIN files :
           Cardinality({SyllableOf(Written(r)[k]) : k \in 1..Len(Written(r))})
             = Len(Written(r))

C2_Witness ==
  /\ pc = "sort" /\ program = CDICE /\ Unedited /\ Out = "sidney_lau"
  /\ Len(split(Syllables)) = 7776
  /\ \A k \in 1..Len(Syllables) :
       \A i \in 1..Len(Syllables[k]) : Char(Syllables[k], i) \notin {"?", "|"}

\* C3: with the shipped inventories the product of 24 initials, 60 finals
\* and 6 pitches has 8640 syllables, 8364 are left after the nasal-final
\* removal, 7884 after the tone-5 removal, and 7776 after the tone-4
\* removal, whose computed surplus is 108.
C3_StageCounts ==
  Unedited =>
    /\ pc = "filter_nasal" =>
         /\ Len(initials) = 24 /\ Len(FINALS) = 60 /\ Len(PITCHES) = 6
         /\ Len(Conway) = 8640
         /\ Cardinality(Survivors(Conway)) = 8640
    /\ pc = "filter_tone5" => Cardinality(Survivors(Conway)) = 8364
    /\ pc = "reduce" => Cardinality(Survivors(Conway)) = 7884
    /\ (pc = "canonicalise" /\ rule = 1) =>
         /\ syllable_surplus = 108
         /\ Cardinality(Survivors(Conway)) = 7776

C3_Witness ==
  /\ pc = "canonicalise" /\ rule = 1 /\ Unedited /\ program = CDICE
  /\ syllable_surplus = 108
  /\ Cardinality(Survivors(Conway)) = 7776

\* What the canonicalisation makes of a pitch digit of an entering syllable.
CanonicalPitch(p) ==
  IF p = "1" THEN "7" ELSE IF p = "3" THEN "8" ELSE IF p = "6" THEN "9" ELSE p

\* C4 as stated: after the canonicalisation every surviving syllable whose
\* final ends in p, t or k has a pitch digit in {7, 8, 9}, and every other
\* surviving syllable keeps its original pitch digit, one of 1..6.
C4_EnteringPitchesAllCanonical ==
  (Unedited /\ pc = "convert") =>
    \A k \in Survivors(Conway) :
      IF IsEntering(Original(k))
      THEN PitchOf(Conway[k]) \in {"7", "8", "9"}
      ELSE /\ Conway[k] = Original(k)
           /\ PitchOf(Conway[k]) \in Range(PITCHES)

\* C4 as amended: after the canonicalisation a surviving syllable whose
\* final ends in p, t or k has pitch 7, 8 or 9 in place of 1, 3 or 6 and
\* keeps a pitch 2 or 4 (so its digit is one of 2, 4, 7, 8, 9), its initial
\* and final unchanged; every other surviving syllable is unchanged, its
\* pitch one of 1..6.
C4_EnteringPitchesCanonicalOrVernacular ==
  pc = "convert" =>
    \A k \in Survivors(Conway) :
      IF IsEntering(Original(k))
      THEN /\ Conway[k] =
                Join(InitialOf(Original(k)), FinalOf(Original(k)),
                     CanonicalPitch(PitchOf(Original(k))))
           /\ PitchOf(Conway[k]) \in {"2", "4", "7", "8", "9"}
      ELSE /\ Conway[k] = Original(k)
           /\ PitchOf(Conway[k]) \in Range(PITCHES)

C4_Witness ==
  /\ pc = "convert" /\ Unedited /\ program = CDICE
  /\ \E k \in Survivors(Conway) :
       IsEntering(Conway[k]) /\ PitchOf(Conway[k]) = "4"
  /\ \E k \in Survivors(Conway) :
       IsEntering(Conway[k]) /\ PitchOf(Conway[k]) = "7"

\* The whole-field lookup of one table: the replacement of the first rule
\* whose pattern is the field, the field itself when there is none.
Lookup(rules, field) ==
  LET hits == {j \in 1..NumRules(rules) : Patts(rules)[j] = field}
  IN  IF hits = {} THEN field
      ELSE Repls(rules)[CHOOSE j \in hits : \A h \in hits : j <= h]

LookupLine(tables, line) ==
  IF line = "" THEN ""
  ELSE Join(Lookup(tables.initials, InitialOf(line)),
            Lookup(tables.finals, FinalOf(line)),
            Lookup(tables.tones, PitchOf(line)))

FieldOf(t, line) ==
  IF t = 1 THEN InitialOf(line) ELSE IF t = 2 THEN FinalOf(line)
  ELSE PitchOf(line)

WithField(t, line, new) ==
  Join(IF t = 1 THEN new ELSE InitialOf(line),
       IF t = 2 THEN new ELSE FinalOf(line),
       IF t = 3 THEN new ELSE PitchOf(line))

\* C5: in cdice.py, for each alternate scheme, applying the rules of the
\* tables one after another to the whole text is a whole-field lookup:
\* a rule changes a line only when the line's field of the rule's type is
\* the rule's pattern and has not been rewritten before, and then puts the
\* rule's replacement in that field and leaves the rest; and what
\* convert_romanisation returns is, line by line, the triple of the
\* looked-up initial, final and tone.
C5_RulesAreWholeFieldLookup ==
  [][ (program = CDICE /\ pc = "rules") =>
        IF type <= Len(TYPES)
        THEN rule <= NumRules(Rules) =>
               \A k \in 1..Len(Syllables) :
                 Syllables'[k] # Syllables[k] =>
                   /\ Syllables[k] # ""
                   /\ FieldOf(type, Syllables[k]) = Patts(Rules)[rule]
                   /\ FieldOf(type, Syllables[k]) = FieldOf(type, Conway[k])
                   /\ Syllables'[k]
                        = WithField(type, Syllables[k], Repls(Rules)[rule])
        ELSE \A k \in 1..Len(Syllables) :
               Syllables[k] = LookupLine(conversions[Scheme], Conway[k])
    ]_vars

C5_Witness ==
  /\ pc = "rules" /\ type > Len(TYPES) /\ program = CDICE /\ Unedited
  /\ Scheme = "sidney_lau"
  /\ \E k \in 1..Len(Syllables) :
       /\ Syllables[k] # ""
       /\ InitialOf(Syllables[k]) # InitialOf(Conway[k])
       /\ FinalOf(Syllables[k]) # FinalOf(Conway[k])
       /\ PitchOf(Syllables[k]) # PitchOf(Conway[k])

\* C6: when the number of surviving syllables of a scheme is not 7776, the
\* pairing of dice codes with the sorted syllables fails: no list is
\* paired (and none written) from a count other than 7776.
C6_PairingNeedsExactCount ==
  pc = "write" => Cardinality(Survivors(Stored(Out))) = 7776

\* A run on an inventory without its last initial ends with every file
\* written, each of 7556 lines.
C6_Witness ==
  /\ pc = "done" /\ program = CDICE /\ syllable_surplus < 0
  /\ DOMAIN files = Range(ROMANISATIONS(program))
  /\ \A r \in DOMAIN files : Len(Written(r)) = 7776 + syllable_surplus

\* C7: when a conversion table has an odd number of tokens,
\* convert_romanisation fails fast: it never gets through the rules of such
\* a table.
C7_OddTableFailsFast ==
  (pc = "rules" /\ type <= Len(TYPES) /\ rule > NumRules(Rules)) =>
    Len(Rules) % 2 = 0

\* A run on a jyutping initials table that ends in an unpaired "y" returns
\* from convert_romanisation, the initial y left as it is.
C7_Witness ==
  /\ pc = "convert" /\ romanisation = 2
  /\ Len(conversions.jyutping.initials) % 2 = 1
  /\ "jyutping" \in DOMAIN syllables_dictionary
  /\ \E k \in Survivors(Stored("jyutping")) :
       InitialOf(Stored("jyutping")[k]) = "y"

\* A syllable whose final ends in p, t or k and whose pitch is 4.
IsTone4Entering(line) == IsEntering(line) /\ PitchOf(line) = "4"

\* C8: the tone-4 step computes the surplus as the number of syllables
\* over 7776 and, when that is positive, empties exactly the first surplus
\* lines (all of them, if there are fewer), in enumeration order, among
\* those whose final ends in p, t or k and whose pitch is 4: every later
\* one is kept; and it never changes a line that is not such a syllable.
C8_Tone4RemovalTakesFirstSurplus ==
  [][ pc = "reduce" =>
        LET IsCand(k) == IsTone4Entering(Conway[k])
            cands == SelectSeq([k \in 1..Len(Conway) |-> k], IsCand)
            gone  == {cands[j] : j \in 1..Min(syllable_surplus', Len(cands))}
        IN  /\ syllable_surplus' = Cardinality(Survivors(Conway)) - 7776
            /\ Len(Conway') = Len(Conway)
            /\ \A k \in 1..Len(Conway) :
                 Conway'[k] # Conway[k] => IsCand(k) /\ Conway'[k] = ""
            /\ syllable_surplus' > 0 =>
                 \A k \in 1..Len(Conway) :
                   Conway'[k] = IF k \in gone THEN "" ELSE Conway[k]
    ]_vars

C8_Witness ==
  /\ pc = "canonicalise" /\ rule = 1 /\ syllable_surplus > 0
  /\ \E k \in Survivors(Conway) : IsTone4Entering(Conway[k])
  /\ \E k \in 1..Len(Conway) : Conway[k] = "" /\ IsTone4Entering(Original(k))

\* The tone-4 entering syllables the tone-4 step removed and left.
Tone4Removed ==
  {k \in 1..Len(Conway) : Conway[k] = "" /\ IsTone4Entering(Original(k))}

Tone4Left == {k \in Survivors(Conway) : IsTone4Entering(Conway[k])}

\* C9 as stated: with the shipped inventories the surplus of 108 is the
\* number of tone-4 entering candidates present before the tone-4 step, so
\* none of them is left among the 7776 survivors.
C9_SurplusIsAllTone4Entering ==
  (Unedited /\ pc = "canonicalise" /\ rule = 1) =>
    /\ syllable_surplus = 108
    /\ syllable_surplus = Cardinality(Tone4Removed) + Cardinality(Tone4Left)
    /\ Tone4Left = {}

\* C9 as amended: with the shipped inventories the surplus is 108, fewer
\* than the 480 tone-4 entering candidates present before the tone-4 step:
\* the step removes 108 of them and 372 are left among the 7776 survivors.
C9_SurplusIsPartOfTone4Entering ==
  (Unedited /\ pc = "canonicalise" /\ rule = 1) =>
    /\ syllable_surplus = 108
    /\ Cardinality(Tone4Removed) = 108
    /\ Cardinality(Tone4Left) = 372
    /\ Cardinality(Survivors(Conway)) = 7776

C9_Witness ==
  /\ Unedited /\ pc = "canonicalise" /\ rule = 1 /\ program = CDICE
  /\ Tone4Left # {} /\ Tone4Removed # {}

Other(prog) == IF prog = CDICE THEN CANTONESE_DICEWARE ELSE CDICE

RECURSIVE TablesUpTo(_, _, _, _)
\* The tables of the types 1, ..., t of one scheme applied in order.
TablesUpTo(prog, tables, t, syls) ==
  IF t = 0 THEN syls
  ELSE ApplyRules(prog, TYPES[t], tables[TYPES[t]], 1,
                  TablesUpTo(prog, tables, t - 1, syls))

\* C10: for the conway and the jyutping scheme the two programs pair the
\* same dice codes with the same syllables, in the same order: when one
\* program has gone through the jyutping finals table, where the two
\* anchor their rules differently, its text is the text the other
\* program's rules make of the same canonical syllables up to that table,
\* and what a run of one program has written when it ends is what the
\* other program computes.
C10_ProgramsAgree ==
  Unedited =>
    /\ (/\ pc = "rules" /\ type = 2 /\ rule > NumRules(Rules)
        /\ Scheme = "jyutping") =>
          Syllables = TablesUpTo(Other(program), conversions[Scheme], type,
                                 Conway)
    /\ pc = "done" =>
          \A r \in {"conway", "jyutping"} :
            Written(r) = OutputLines(Other(program), INITIALS,
                                     ROMANISATION_CONVERSIONS_DICTIONARY, r)

C10_Witness ==
  /\ pc = "done" /\ program = CANTONESE_DICEWARE
  /\ DOMAIN files = {"conway", "jyutping"}
  /\ Len(Written("jyutping")) = 7776
  /\ \E k \in 1..7776 : Written("jyutping")[k] # Written("conway")[k]
=============================================================================
